---- MODULE Spec2Model ----
(***************************************************************************)
(* Model of python-scoring/transforms_for_dot_prods.py: the transforms     *)
(* that rewrite an item x affiliation adjacency matrix so that a plain dot *)
(* product of two transformed rows gives a pairwise similarity score.      *)
(*                                                                         *)
(* Numbers are exact: a finite value is c * sqrt(s) * log(l)^(e/2) with c  *)
(* a rational, s a square-free positive integer, l a rational > 1 and e    *)
(* an integer; NaN and +-Inf are values of their own, produced where numpy *)
(* produces them (0/0, x/0, 0*Inf).  Floating-point rounding is not        *)
(* modelled.                                                               *)
(***************************************************************************)
EXTENDS Integers, Sequences, FiniteSets, TLC

\* ------------------------------------------------------------------ bounds
NRows == 2
PiDen == 2
MaxDocs == 4
MaxWeight == 2

\* ------------------------------------------------------------- rationals
RECURSIVE GCD(_, _)
GCD(a, b) == IF b = 0 THEN a ELSE GCD(b, a % b)

Abs(x) == IF x < 0 THEN -x ELSE x

\* n/d in lowest terms, d > 0
Rat(n, d) ==
    LET g == GCD(Abs(n), Abs(d))
        sg == IF d < 0 THEN -1 ELSE 1
    IN [n |-> sg * (n \div g), d |-> sg * (d \div g)]

R0 == [n |-> 0, d |-> 1]
R1 == [n |-> 1, d |-> 1]
RInt(k) == [n |-> k, d |-> 1]
RAdd(a, b) == Rat(a.n * b.d + b.n * a.d, a.d * b.d)
RSub(a, b) == Rat(a.n * b.d - b.n * a.d, a.d * b.d)
RMul(a, b) == Rat(a.n * b.n, a.d * b.d)
RInv(a) == Rat(a.d, a.n)
RLe(a, b) == a.n * b.d <= b.n * a.d
RLt(a, b) == a.n * b.d < b.n * a.d
RMax(a, b) == IF RLe(a, b) THEN b ELSE a

\* ------------------------------------------------------------ real values
Fin(c, s, l, e) == [k |-> "fin", c |-> c, s |-> s, l |-> l, e |-> e]
NaN == [k |-> "nan", c |-> R0, s |-> 1, l |-> R1, e |-> 0]
Inf(sign) == [k |-> "inf", c |-> RInt(sign), s |-> 1, l |-> R1, e |-> 0]
FromRat(q) == Fin(q, 1, R1, 0)
Zero == FromRat(R0)
One == FromRat(R1)
FromInt(k) == FromRat(RInt(k))

IsZero(a) == a.k = "fin" /\ a.c.n = 0
IsRational(a) == a.k = "fin" /\ a.s = 1 /\ a.e = 0
Sign(a) == IF a.c.n > 0 THEN 1 ELSE IF a.c.n < 0 THEN -1 ELSE 0

\* np.isnan, np.isinf
isnan(a) == a.k = "nan"
isinf(a) == a.k = "inf"

\* the largest k with k*k dividing n (n >= 1)
RECURSIVE SquarePart(_, _)
SquarePart(n, k) == IF k <= 1 THEN 1
                    ELSE IF n % (k * k) = 0 THEN k ELSE SquarePart(n, k - 1)

\* canonical finite value: zero has no irrational part, log(l)^0 has no l
Canon(c, s, l, e) ==
    IF c.n = 0 THEN Zero
    ELSE Fin(c, s, IF e = 0 THEN R1 ELSE l, e)

\* a * b with IEEE rules for the special values
Mul(a, b) ==
    IF isnan(a) \/ isnan(b) THEN NaN
    ELSE IF isinf(a) \/ isinf(b)
         THEN IF IsZero(a) \/ IsZero(b) THEN NaN ELSE Inf(Sign(a) * Sign(b))
    ELSE IF IsZero(a) \/ IsZero(b) THEN Zero
    ELSE LET g == GCD(a.s, b.s)
             l == IF a.e = 0 THEN b.l ELSE a.l
         IN  \* log parts multiply only when they are powers of the same log
             CASE a.e = 0 \/ b.e = 0 \/ a.l = b.l ->
                 Canon(RMul(RMul(a.c, b.c), RInt(g)),
                       (a.s \div g) * (b.s \div g), l, a.e + b.e)

\* 1 / a: 1/0 is Inf, 1/Inf is 0
Recip(a) ==
    IF isnan(a) THEN NaN
    ELSE IF isinf(a) THEN Zero
    ELSE IF IsZero(a) THEN Inf(1)
    ELSE Fin(RInv(RMul(a.c, RInt(a.s))), a.s, a.l, -a.e)

\* a / b with IEEE rules: 0/0 is NaN, x/0 is +-Inf
Div(a, b) ==
    IF isnan(a) \/ isnan(b) THEN NaN
    ELSE IF IsZero(b) THEN (IF isinf(a) THEN a
                            ELSE IF IsZero(a) THEN NaN ELSE Inf(Sign(a)))
    ELSE IF isinf(a) /\ isinf(b) THEN NaN
    ELSE Mul(a, Recip(b))

Neg(a) == IF isnan(a) THEN NaN
          ELSE IF isinf(a) THEN Inf(-Sign(a))
          ELSE Canon(RSub(R0, a.c), a.s, a.l, a.e)

\* a + b; finite values add when they share their irrational part
Add(a, b) ==
    IF isnan(a) \/ isnan(b) THEN NaN
    ELSE IF isinf(a) /\ isinf(b) THEN (IF Sign(a) = Sign(b) THEN a ELSE NaN)
    ELSE IF isinf(a) THEN a
    ELSE IF isinf(b) THEN b
    ELSE IF IsZero(a) THEN b
    ELSE IF IsZero(b) THEN a
    ELSE CASE a.s = b.s /\ a.e = b.e /\ a.l = b.l ->
             Canon(RAdd(a.c, b.c), a.s, a.l, a.e)

Sub(a, b) == Add(a, Neg(b))

\* np.sqrt: sqrt of a negative number is NaN
Sqrt(a) ==
    IF isnan(a) THEN NaN
    ELSE IF isinf(a) THEN (IF Sign(a) > 0 THEN a ELSE NaN)
    ELSE IF IsZero(a) THEN Zero
    ELSE IF Sign(a) < 0 THEN NaN
    ELSE CASE a.s = 1 /\ a.e % 2 = 0 ->
             \* sqrt(n/d) = sqrt(n*d)/d = k*sqrt(f)/d with n*d = k*k*f
             LET nd == a.c.n * a.c.d
                 k == SquarePart(nd, nd)
             IN Fin(Rat(k, a.c.d), nd \div (k * k), a.l, a.e \div 2)

\* np.log (natural): log(0) is -Inf, log of a negative number is NaN
Log(a) ==
    IF isnan(a) THEN NaN
    ELSE IF isinf(a) THEN (IF Sign(a) > 0 THEN a ELSE NaN)
    ELSE IF IsZero(a) THEN Inf(-1)
    ELSE IF Sign(a) < 0 THEN NaN
    ELSE CASE IsRational(a) ->
             IF a.c = R1 THEN Zero
             ELSE IF RLt(R1, a.c) THEN Fin(R1, 1, a.c, 2)
             ELSE Fin(RInt(-1), 1, RInv(a.c), 2)

\* np.maximum on rational values
maximum(a, b) == IF RLe(a.c, b.c) THEN b ELSE a

\* --------------------------------------------------------------- matrices
\* A dense matrix stores every cell; a sparse one stores only the cells in
\* DOMAIN data, and every other cell is an implicit 0.
\* An array holds its values: each element is computed once, when the array
\* is built, not each time it is read.
Array(f) == f @@ <<>>

Cells(n, m) == (1..n) \X (1..m)
DenseMatrix(n, m, f) == [kind |-> "dense", shape |-> <<n, m>>, data |-> Array(f)]
SparseMatrix(n, m, f) == [kind |-> "sparse", shape |-> <<n, m>>, data |-> Array(f)]
NoMatrix == [kind |-> "none", shape |-> <<0, 0>>, data |-> <<>>]

RowsOf(A) == 1..A.shape[1]
ColsOf(A) == 1..A.shape[2]

\* scipy.sparse.isspmatrix
isspmatrix(A) == A.kind = "sparse"

\* the logical entry (i, j)
At(A, i, j) == IF <<i, j>> \in DOMAIN A.data THEN A.data[<<i, j>>] ELSE Zero

\* .toarray() / .todense(): every cell stored
toarray(A) ==
    DenseMatrix(A.shape[1], A.shape[2],
                [p \in Cells(A.shape[1], A.shape[2]) |-> At(A, p[1], p[2])])

\* sparse.multiply(row vector): only the stored entries are multiplied;
\* .tocsr() keeps the result sparse
SpMultiplyCols(A, v) ==
    SparseMatrix(A.shape[1], A.shape[2],
                 [p \in DOMAIN A.data |-> Mul(A.data[p], v[p[2]])])

\* sparse.multiply(scalar)
SpMultiplyScalar(A, x) ==
    SparseMatrix(A.shape[1], A.shape[2],
                 [p \in DOMAIN A.data |-> Mul(A.data[p], x)])

\* spdiags(d, 0, n, n) * A: row i of the stored entries times d[i]
SpDiagTimes(d, A) ==
    SparseMatrix(A.shape[1], A.shape[2],
                 [p \in DOMAIN A.data |-> Mul(d[p[1]], A.data[p])])

\* A / v, A * v, A - v with v broadcast along the columns: numpy on a dense
\* array, and scipy densifies a sparse operand first (the result is dense)
DivideCols(A, v) ==
    DenseMatrix(A.shape[1], A.shape[2],
                [p \in Cells(A.shape[1], A.shape[2]) |-> Div(At(A, p[1], p[2]), v[p[2]])])

TimesCols(A, v) ==
    DenseMatrix(A.shape[1], A.shape[2],
                [p \in Cells(A.shape[1], A.shape[2]) |-> Mul(At(A, p[1], p[2]), v[p[2]])])

MinusCols(A, v) ==
    DenseMatrix(A.shape[1], A.shape[2],
                [p \in Cells(A.shape[1], A.shape[2]) |-> Sub(At(A, p[1], p[2]), v[p[2]])])

DivideScalar(A, x) ==
    DenseMatrix(A.shape[1], A.shape[2],
                [p \in Cells(A.shape[1], A.shape[2]) |-> Div(At(A, p[1], p[2]), x)])

\* the same with a column vector (one number per row) broadcast along the rows
DivideRows(A, r) ==
    DenseMatrix(A.shape[1], A.shape[2],
                [p \in Cells(A.shape[1], A.shape[2]) |-> Div(At(A, p[1], p[2]), r[p[1]])])

MinusRows(A, r) ==
    DenseMatrix(A.shape[1], A.shape[2],
                [p \in Cells(A.shape[1], A.shape[2]) |-> Sub(At(A, p[1], p[2]), r[p[1]])])

\* elementwise A - B and A / B of two matrices of one shape (dense result)
MinusMatrix(A, B) ==
    DenseMatrix(A.shape[1], A.shape[2],
                [p \in Cells(A.shape[1], A.shape[2]) |->
                    Sub(At(A, p[1], p[2]), At(B, p[1], p[2]))])

DivideMatrix(A, B) ==
    DenseMatrix(A.shape[1], A.shape[2],
                [p \in Cells(A.shape[1], A.shape[2]) |->
                    Div(At(A, p[1], p[2]), At(B, p[1], p[2]))])

\* sum over j = 1..m of f[j]
RECURSIVE SumTo(_, _)
SumTo(f, m) == IF m = 0 THEN Zero ELSE Add(SumTo(f, m - 1), f[m])

\* (A * A).sum(axis=1), A.power(2).sum(axis=1): the row sums of squares
RowSumSquares(A) ==
    Array([i \in RowsOf(A) |->
        SumTo([j \in ColsOf(A) |-> Mul(At(A, i, j), At(A, i, j))], A.shape[2])])

\* A.mean(axis=1)
RowMeans(A) ==
    Array([i \in RowsOf(A) |->
        Div(SumTo([j \in ColsOf(A) |-> At(A, i, j)], A.shape[2]), FromInt(A.shape[2]))])

\* -------------------------------------------------------------- transforms
\* What a transform returns: the object (the caller's adj_matrix itself, or
\* a matrix built by the call) and its value.
New(M) == [obj |-> "new", value |-> M]
Same(M) == [obj |-> "adj_matrix", value |-> M]

Half == FromRat(Rat(1, 2))

\* (mutant) pi_for_denom = pi_vector: a second name for the caller's object
PiForDenomAliased == "pi_vector"

\* pi_for_denom = pi_vector.copy(): the name is bound to an object of its own
PiForDenomObject == "pi_for_denom"

\* (mutant) lines 14-15 left out: no substitution of .5 for 0 and 1
wc_objects_unsubstituted(pi_vector) ==
    [pi_vector |-> pi_vector, pi_for_denom |-> pi_vector]

\* wc_transform's objects after lines 13-15: pi_vector, and pi_for_denom
\* with its zeros and ones set to .5
wc_objects(pi_vector) ==
    LET heap1 == [pi_vector |-> pi_vector, pi_for_denom |-> pi_vector]
        obj == PiForDenomObject
        heap2 == [heap1 EXCEPT ![obj] = [j \in DOMAIN heap1[obj] |->
                     IF heap1[obj][j] = Zero THEN Half ELSE heap1[obj][j]]]
    IN [heap2 EXCEPT ![obj] = [j \in DOMAIN heap2[obj] |->
                     IF heap2[obj][j] = One THEN Half ELSE heap2[obj][j]]]

wc_transform(adj_matrix, pi_vector) ==
    LET heap == wc_objects(pi_vector)
        pi_for_denom == heap[PiForDenomObject]
        denom == Array([j \in ColsOf(adj_matrix) |->
                     Sqrt(Mul(Mul(pi_for_denom[j], Sub(One, pi_for_denom[j])),
                              FromInt(adj_matrix.shape[2])))])
    IN New(DivideCols(MinusCols(adj_matrix, heap.pi_vector), denom))

\* edge_probs is the matrix exp_model.edge_prob_matrix() returns
wc_exp_transform(adj_matrix, edge_probs) ==
    LET edge_probs_for_denom ==
            Array([p \in DOMAIN edge_probs.data |->
                IF edge_probs.data[p] = Zero \/ edge_probs.data[p] = One
                THEN Half ELSE edge_probs.data[p]])
        denom == DenseMatrix(adj_matrix.shape[1], adj_matrix.shape[2],
                     [p \in DOMAIN edge_probs.data |->
                         Sqrt(Mul(Mul(edge_probs_for_denom[p],
                                      Sub(One, edge_probs_for_denom[p])),
                                  FromInt(adj_matrix.shape[2])))])
    IN New(DivideMatrix(MinusMatrix(adj_matrix, edge_probs), denom))

\* (mutant) the count floored at 1
AffilCountsFlooredAtOne(num_docs, pi_vector) ==
    Array([j \in DOMAIN pi_vector |->
        maximum(Mul(FromInt(num_docs), pi_vector[j]), One)])

\* np.maximum(num_docs * pi_vector, 2)
AffilCounts(num_docs, pi_vector) ==
    Array([j \in DOMAIN pi_vector |->
        maximum(Mul(FromInt(num_docs), pi_vector[j]), FromInt(2))])

\* (mutant) the divisor without the "- 1"
NewmanDivisorNoMinusOne(affil_counts) ==
    Array([j \in DOMAIN affil_counts |-> Sqrt(affil_counts[j])])

NewmanDivisor(affil_counts) ==
    Array([j \in DOMAIN affil_counts |-> Sqrt(Sub(affil_counts[j], One))])

newman_transform(adj_matrix, pi_vector, num_docs, make_dense) ==
    LET affil_counts == AffilCounts(num_docs, pi_vector)
        divisor == NewmanDivisor(affil_counts)
    IN IF isspmatrix(adj_matrix) /\ ~make_dense
       THEN New(SpMultiplyCols(adj_matrix, Array([j \in DOMAIN divisor |-> Recip(divisor[j])])))
       ELSE New(DivideCols(adj_matrix, divisor))

\* (mutant) back_compat ignored
shared_size_always_scaled(adj_matrix, back_compat, make_dense) ==
    IF isspmatrix(adj_matrix) /\ ~make_dense
    THEN New(SpMultiplyScalar(adj_matrix, Recip(Sqrt(FromInt(adj_matrix.shape[2])))))
    ELSE New(DivideScalar(adj_matrix, Sqrt(FromInt(adj_matrix.shape[2]))))

shared_size_transform(adj_matrix, back_compat, make_dense) ==
    IF back_compat
    THEN Same(adj_matrix)
    ELSE IF isspmatrix(adj_matrix) /\ ~make_dense
         THEN New(SpMultiplyScalar(adj_matrix, Recip(Sqrt(FromInt(adj_matrix.shape[2])))))
         ELSE New(DivideScalar(adj_matrix, Sqrt(FromInt(adj_matrix.shape[2]))))

SharedWeightFactor(pi_vector) ==
    Array([j \in DOMAIN pi_vector |-> Sqrt(Log(Recip(pi_vector[j])))])

shared_weight11_transform(adj_matrix, pi_vector) ==
    IF isspmatrix(adj_matrix)
    THEN New(SpMultiplyCols(adj_matrix, SharedWeightFactor(pi_vector)))
    ELSE New(TimesCols(adj_matrix, SharedWeightFactor(pi_vector)))

AdamicAdarDivisor(affil_counts) ==
    Array([j \in DOMAIN affil_counts |-> Sqrt(Log(affil_counts[j]))])

\* (mutant) the dense branch taken for every input
adamic_adar_always_dense(adj_matrix, pi_vector, num_docs, make_dense) ==
    New(DivideCols(adj_matrix, AdamicAdarDivisor(AffilCounts(num_docs, pi_vector))))

adamic_adar_transform(adj_matrix, pi_vector, num_docs, make_dense) ==
    LET affil_counts == AffilCounts(num_docs, pi_vector)
        divisor == AdamicAdarDivisor(affil_counts)
    IN IF isspmatrix(adj_matrix) /\ ~make_dense
       THEN New(SpMultiplyCols(adj_matrix, Array([j \in DOMAIN divisor |-> Recip(divisor[j])])))
       ELSE New(DivideCols(adj_matrix, divisor))

\* row_norms[np.isinf(row_norms)] = 0
ZeroTheInfs(v) == Array([i \in DOMAIN v |-> IF isinf(v[i]) THEN Zero ELSE v[i]])

\* (mutant) the sum of squares taken for the norm
CosineSparseRowNormsNoSqrt(adj_matrix) ==
    LET sums == RowSumSquares(adj_matrix)
    IN ZeroTheInfs(Array([i \in DOMAIN sums |-> Recip(sums[i])]))

\* lines 81-82: the reciprocal norms of the sparse branch
CosineSparseRowNorms(adj_matrix) ==
    LET sums == RowSumSquares(adj_matrix)
    IN ZeroTheInfs(Array([i \in DOMAIN sums |-> Recip(Sqrt(sums[i]))]))

\* lines 86-87: the norms of the dense branch
CosineDenseRowNorms(adj_matrix) ==
    LET sums == RowSumSquares(adj_matrix)
    IN ZeroTheInfs(Array([i \in DOMAIN sums |-> Sqrt(sums[i])]))

cosine_transform(adj_matrix0, make_dense) ==
    LET adj_matrix == IF isspmatrix(adj_matrix0) /\ make_dense
                      THEN toarray(adj_matrix0) ELSE adj_matrix0
    IN IF isspmatrix(adj_matrix)
       THEN New(SpDiagTimes(CosineSparseRowNorms(adj_matrix), adj_matrix))
       ELSE New(DivideRows(adj_matrix, CosineDenseRowNorms(adj_matrix)))

cosine_weights_transform(adj_matrix, weights, make_dense) ==
    LET transformed_mat == IF isspmatrix(adj_matrix)
                           THEN SpMultiplyCols(adj_matrix, weights)
                           ELSE TimesCols(adj_matrix, weights)
    IN cosine_transform(transformed_mat, make_dense)

\* sklearn.preprocessing.scale(X.T, axis=0, with_mean=False, with_std=True).T:
\* every row divided by its (population) standard deviation, a zero
\* deviation replaced by 1; a sparse matrix stays sparse
ScaleRows(adj_matrix) ==
    LET n == FromInt(adj_matrix.shape[2])
        sq == RowSumSquares(adj_matrix)
        mean == RowMeans(adj_matrix)
        std == Array([i \in RowsOf(adj_matrix) |->
                   LET sd == Sqrt(Sub(Div(sq[i], n), Mul(mean[i], mean[i])))
                   IN IF IsZero(sd) THEN One ELSE sd])
    IN IF isspmatrix(adj_matrix)
       THEN SpDiagTimes(Array([i \in RowsOf(adj_matrix) |-> Recip(std[i])]), adj_matrix)
       ELSE DivideRows(adj_matrix, std)

pearson_transform(adj_matrix) ==
    LET adj_stdev_1 == ScaleRows(adj_matrix)
        row_means == RowMeans(adj_stdev_1)
        n == adj_matrix.shape[2]
    IN New(DivideScalar(MinusRows(adj_stdev_1, row_means), Sqrt(FromInt(n))))

\* ------------------------------------------------------------------ inputs
\* The 0/1 adjacency matrices of NRows items over two affiliations (every
\* transform works affiliation by affiliation or item by item), and the
\* 3 x 4 matrix of the end-to-end scenario.
ScenarioEntries ==
    <<  <<1, 1, 0, 0>>,
        <<1, 0, 1, 0>>,
        <<0, 0, 0, 1>>  >>

BinaryTables ==
    { [n |-> NRows, m |-> 2, x |-> f] : f \in [Cells(NRows, 2) -> {0, 1}] }
    \cup { [n |-> 3, m |-> 4,
            x |-> [p \in Cells(3, 4) |-> ScenarioEntries[p[1]][p[2]]]] }

AsDense(t) == DenseMatrix(t.n, t.m, [p \in DOMAIN t.x |-> FromInt(t.x[p])])
AsSparse(t) ==
    SparseMatrix(t.n, t.m, [p \in {q \in DOMAIN t.x : t.x[q] # 0} |-> FromInt(t.x[p])])

InputMatrices == {AsDense(t) : t \in BinaryTables} \cup {AsSparse(t) : t \in BinaryTables}

PiVals == {FromRat(Rat(k, PiDen)) : k \in 0..PiDen}
PiVectors(m) == [1..m -> PiVals]
PositivePiVectors(m) == [1..m -> PiVals \ {Zero}]
DocVals == 0..MaxDocs
WeightVectors(m) == [1..m -> {FromInt(w) : w \in 0..MaxWeight}]

\* exp_model.edge_prob_matrix(): item 1 has its own probability for every
\* affiliation, the other items share one probability
EdgeProbMatrices(n, m) ==
    { DenseMatrix(n, m, [p \in Cells(n, m) |-> IF p[1] = 1 THEN v[p[2]] ELSE q]) :
        v \in PiVectors(m), q \in PiVals }

\* ------------------------------------------------------------------- state
VARIABLES
    adj_matrix,     \* the caller's adjacency matrix (the object's value now)
    pi_vector,      \* the caller's popularity vector (the object's value now)
    weights,        \* the caller's weights (the object's value now)
    call,           \* the last call: the transform and the arguments as passed
    ret,            \* the object returned: "adj_matrix" itself or a "new" one
    result,         \* the value of the object returned
    affil_counts    \* the local affil_counts of newman / adamic_adar

vars == <<adj_matrix, pi_vector, weights, call, ret, result, affil_counts>>

NoVector == <<>>

Args(fn, pi, w, num_docs, make_dense, back_compat, edge_probs) ==
    [fn |-> fn, adj_matrix |-> adj_matrix, pi_vector |-> pi, weights |-> w,
     num_docs |-> num_docs, make_dense |-> make_dense, back_compat |-> back_compat,
     edge_probs |-> edge_probs]

Init ==
    /\ adj_matrix \in InputMatrices
    /\ pi_vector = NoVector
    /\ weights = NoVector
    /\ call = Args("none", NoVector, NoVector, 0, FALSE, FALSE, NoMatrix)
    /\ ret = "none"
    /\ result = NoMatrix
    /\ affil_counts = NoVector

\* A behaviour is one call: the transforms keep no state between calls.
NotCalled == call.fn = "none"

\* No transform assigns into adj_matrix.
Return(out) ==
    /\ ret' = out.obj
    /\ result' = out.value
    /\ UNCHANGED adj_matrix

WcTransform ==
    /\ NotCalled
    /\ \E pi \in PiVectors(adj_matrix.shape[2]) :
        /\ call' = Args("wc", pi, NoVector, 0, FALSE, FALSE, NoMatrix)
        /\ Return(wc_transform(adj_matrix, pi))
        /\ pi_vector' = wc_objects(pi).pi_vector
        /\ weights' = NoVector
        /\ affil_counts' = NoVector

WcExpTransform ==
    /\ NotCalled
    /\ \E ep \in EdgeProbMatrices(adj_matrix.shape[1], adj_matrix.shape[2]) :
        /\ call' = Args("wc_exp", NoVector, NoVector, 0, FALSE, FALSE, ep)
        /\ Return(wc_exp_transform(adj_matrix, ep))
        /\ pi_vector' = NoVector
        /\ weights' = NoVector
        /\ affil_counts' = NoVector

NewmanTransform ==
    /\ NotCalled
    /\ \E pi \in PiVectors(adj_matrix.shape[2]), num_docs \in DocVals, make_dense \in BOOLEAN :
        /\ call' = Args("newman", pi, NoVector, num_docs, make_dense, FALSE, NoMatrix)
        /\ Return(newman_transform(adj_matrix, pi, num_docs, make_dense))
        /\ pi_vector' = pi
        /\ weights' = NoVector
        /\ affil_counts' = AffilCounts(num_docs, pi)

SharedSizeTransform ==
    /\ NotCalled
    /\ \E back_compat \in BOOLEAN, make_dense \in BOOLEAN :
        /\ call' = Args("shared_size", NoVector, NoVector, 0, make_dense, back_compat, NoMatrix)
        /\ Return(shared_size_transform(adj_matrix, back_compat, make_dense))
        /\ pi_vector' = NoVector
        /\ weights' = NoVector
        /\ affil_counts' = NoVector

\* pi_j = 0 is outside this transform's domain (log(1/0)): callers filter
\* such affiliations out before they call it
SharedWeight11Transform ==
    /\ NotCalled
    /\ \E pi \in PositivePiVectors(adj_matrix.shape[2]) :
        /\ call' = Args("shared_weight11", pi, NoVector, 0, FALSE, FALSE, NoMatrix)
        /\ Return(shared_weight11_transform(adj_matrix, pi))
        /\ pi_vector' = pi
        /\ weights' = NoVector
        /\ affil_counts' = NoVector

AdamicAdarTransform ==
    /\ NotCalled
    /\ \E pi \in PiVectors(adj_matrix.shape[2]), num_docs \in DocVals, make_dense \in BOOLEAN :
        /\ call' = Args("adamic_adar", pi, NoVector, num_docs, make_dense, FALSE, NoMatrix)
        /\ Return(adamic_adar_transform(adj_matrix, pi, num_docs, make_dense))
        /\ pi_vector' = pi
        /\ weights' = NoVector
        /\ affil_counts' = AffilCounts(num_docs, pi)

CosineTransform ==
    /\ NotCalled
    /\ \E make_dense \in BOOLEAN :
        /\ call' = Args("cosine", NoVector, NoVector, 0, make_dense, FALSE, NoMatrix)
        /\ Return(cosine_transform(adj_matrix, make_dense))
        /\ pi_vector' = NoVector
        /\ weights' = NoVector
        /\ affil_counts' = NoVector

CosineWeightsTransform ==
    /\ NotCalled
    /\ \E w \in WeightVectors(adj_matrix.shape[2]), make_dense \in BOOLEAN :
        /\ call' = Args("cosine_weights", NoVector, w, 0, make_dense, FALSE, NoMatrix)
        /\ Return(cosine_weights_transform(adj_matrix, w, make_dense))
        /\ pi_vector' = NoVector
        /\ weights' = w
        /\ affil_counts' = NoVector

PearsonTransform ==
    /\ NotCalled
    /\ call' = Args("pearson", NoVector, NoVector, 0, FALSE, FALSE, NoMatrix)
    /\ Return(pearson_transform(adj_matrix))
    /\ pi_vector' = NoVector
    /\ weights' = NoVector
    /\ affil_counts' = NoVector

Next ==
    \/ WcTransform
    \/ WcExpTransform
    \/ NewmanTransform
    \/ SharedSizeTransform
    \/ SharedWeight11Transform
    \/ AdamicAdarTransform
    \/ CosineTransform
    \/ CosineWeightsTransform
    \/ PearsonTransform

Spec == Init /\ [][Next]_vars

\* ------------------------------------------------------- scores and sums
\* A sum of values, exactly: the set of its terms after adding up the
\* coefficients of each irrational part (the empty set is 0).
RECURSIVE CoefSum(_, _, _)
CoefSum(f, m, part) ==
    IF m = 0 THEN R0
    ELSE RAdd(CoefSum(f, m - 1, part),
              IF ~IsZero(f[m]) /\ <<f[m].s, f[m].l, f[m].e>> = part THEN f[m].c ELSE R0)

SumOf(f, m) ==
    IF \E j \in 1..m : isnan(f[j]) THEN {NaN}
    ELSE IF \E j \in 1..m : isinf(f[j])
         THEN (IF \E j, h \in 1..m : isinf(f[j]) /\ isinf(f[h]) /\ f[j] # f[h]
               THEN {NaN} ELSE {f[j] : j \in {h \in 1..m : isinf(f[h])}})
    ELSE LET parts == {<<f[j].s, f[j].l, f[j].e>> : j \in {h \in 1..m : ~IsZero(f[h])}}
         IN {Canon(CoefSum(f, m, part), part[1], part[2], part[3]) : part \in parts}
                \ {Zero}

\* the dot product of rows i and k of T: what T . T^t holds at (i, k)
DotProduct(T, i, k) ==
    SumOf(Array([j \in ColsOf(T) |-> Mul(At(T, i, j), At(T, k, j))]), T.shape[2])

\* the same logical matrix in the other representation
toSparse(A) ==
    SparseMatrix(A.shape[1], A.shape[2],
                 [p \in {q \in DOMAIN A.data : ~IsZero(A.data[q])} |-> A.data[p]])

OtherRepresentation(A) == IF isspmatrix(A) THEN toarray(A) ELSE toSparse(A)

\* the transform of call c applied to matrix A with c's other arguments
Transform(c, A) ==
    CASE c.fn = "wc" -> wc_transform(A, c.pi_vector)
      [] c.fn = "wc_exp" -> wc_exp_transform(A, c.edge_probs)
      [] c.fn = "newman" -> newman_transform(A, c.pi_vector, c.num_docs, c.make_dense)
      [] c.fn = "shared_size" -> shared_size_transform(A, c.back_compat, c.make_dense)
      [] c.fn = "shared_weight11" -> shared_weight11_transform(A, c.pi_vector)
      [] c.fn = "adamic_adar" ->
             adamic_adar_transform(A, c.pi_vector, c.num_docs, c.make_dense)
      [] c.fn = "cosine" -> cosine_transform(A, c.make_dense)
      [] c.fn = "cosine_weights" -> cosine_weights_transform(A, c.weights, c.make_dense)
      [] c.fn = "pearson" -> pearson_transform(A)

Called == call.fn # "none"
M == call.adj_matrix
Items == RowsOf(M)
Affils == ColsOf(M)
Both(i, k, j) == Mul(At(M, i, j), At(M, k, j))
Shared(i, k) == Cardinality({j \in Affils : ~IsZero(Both(i, k, j))})
Degree(i) == Cardinality({j \in Affils : ~IsZero(At(M, i, j))})
ZeroRow(i) == Degree(i) = 0
IsScenario == M.shape = <<3, 4>>
Two == FromInt(2)

\* max(num_docs * pi_j, 2), as the claims state it
FlooredCount(j) ==
    LET x == Mul(FromInt(call.num_docs), call.pi_vector[j])
    IN IF RLt(x.c, Two.c) THEN Two ELSE x

IsFinite(a) == a.k = "fin"

\* ------------------------------------------------------------------ claims

\* C1: the dot product of two rows of the transformed matrix is the metric's
\* term-by-term sum over the affiliations: 1/(max(num_docs*pi_j, 2) - 1) per
\* shared affiliation for newman, 1/log(max(num_docs*pi_j, 2)) for
\* adamic_adar, log(1/pi_j) for shared_weight11, and (the number of shared
\* affiliations)/m for shared_size without back_compat; for 0 < pi_j <= 1.
C1_Term(i, k, j) ==
    CASE call.fn = "newman" -> Div(Both(i, k, j), Sub(FlooredCount(j), One))
      [] call.fn = "adamic_adar" -> Div(Both(i, k, j), Log(FlooredCount(j)))
      [] call.fn = "shared_weight11" ->
             Mul(Both(i, k, j), Log(Div(One, call.pi_vector[j])))
      [] call.fn = "shared_size" -> Div(Both(i, k, j), FromInt(M.shape[2]))

C1_Case ==
    /\ call.fn \in {"newman", "adamic_adar", "shared_weight11", "shared_size"}
    /\ ~call.back_compat
    /\ \A j \in DOMAIN call.pi_vector : ~IsZero(call.pi_vector[j])

C1_DotProductIsTermSum ==
    C1_Case =>
        \A i, k \in Items :
            DotProduct(result, i, k)
                = SumOf(Array([j \in Affils |-> C1_Term(i, k, j)]), M.shape[2])

\* an adamic_adar call on the sparse scenario matrix whose items 1 and 2
\* share an affiliation counted more than twice: the score is 1/log(4)
C1_Witness ==
    /\ C1_Case
    /\ call.fn = "adamic_adar"
    /\ isspmatrix(M) /\ ~call.make_dense
    /\ IsScenario
    /\ FlooredCount(1) = FromInt(4)
    /\ DotProduct(result, 1, 2) = {Fin(R1, 1, RInt(4), -2)}
    /\ DotProduct(result, 1, 3) = {}

\* C2: a transform gives the same entries for the sparse and for the dense
\* representation of one logical matrix, for every transform and matrix
\* (all-zero rows included), the other arguments being the same.
C2_SparseDenseAgree ==
    Called =>
        toarray(result).data
            = toarray(Transform(call, OtherRepresentation(M)).value).data

\* C3: cosine_transform maps an all-zero row to an all-zero row (no NaN, no
\* Inf), on sparse and dense input, and that row scores 0 with every row.
C3_ZeroRowStaysZero ==
    call.fn = "cosine" =>
        \A i \in Items :
            ZeroRow(i) =>
                /\ \A j \in Affils : At(result, i, j) = Zero
                /\ \A k \in Items : DotProduct(result, i, k) = {}

\* C4 as claimed: in wc_transform's result every entry of a column whose
\* pi_j is 0 or 1 is 0, for any 0/1 matrix and any pi.
C4_DegenerateColumnIsZero ==
    call.fn = "wc" =>
        \A j \in Affils :
            call.pi_vector[j] \in {Zero, One} =>
                \A i \in Items : At(result, i, j) = Zero

\* C4 as amended: in a column whose pi_j is 0 or 1 every entry is finite
\* (never NaN or Inf), an entry equal to pi_j becomes 0, and a column that
\* is constant at pi_j contributes 0 to the score of every pair of rows.
C4_ConstantColumnIsZero ==
    call.fn = "wc" =>
        \A j \in Affils :
            call.pi_vector[j] \in {Zero, One} =>
                /\ \A i \in Items :
                    /\ IsFinite(At(result, i, j))
                    /\ (At(M, i, j) = call.pi_vector[j]) <=> (At(result, i, j) = Zero)
                /\ (\A i \in Items : At(M, i, j) = call.pi_vector[j]) =>
                       \A i, k \in Items :
                           Mul(At(result, i, j), At(result, k, j)) = Zero

\* a sparse matrix whose first column is all ones with pi_1 = 1 and whose
\* second column is all zeros with pi_2 = 0
C4_Witness ==
    /\ call.fn = "wc"
    /\ isspmatrix(M)
    /\ call.pi_vector = <<One, Zero>>
    /\ \A i \in Items : At(M, i, 1) = One /\ At(M, i, 2) = Zero
    /\ \A i \in Items : At(result, i, 1) = Zero /\ At(result, i, 2) = Zero

\* x <= 1 for a rational x and for x = 1/log(l): log(l) >= 1 iff l >= e,
\* and 2.71828 < e < 2.71829
AtMostOne(x) ==
    CASE IsRational(x) -> RLe(x.c, R1)
      [] x.k = "fin" /\ x.e = -2 /\ x.s = 1 /\ x.c = R1
            /\ RLe(Rat(271829, 100000), x.l) -> TRUE
      [] x.k = "fin" /\ x.e = -2 /\ x.s = 1 /\ x.c = R1
            /\ RLe(x.l, Rat(271828, 100000)) -> FALSE

\* C5: for newman and adamic_adar every per-affiliation term of a score (the
\* product of the two transformed entries of a shared affiliation) is
\* well-defined and lies in [0, 1].
C5_TermInUnitInterval ==
    call.fn \in {"newman", "adamic_adar"} =>
        \A j \in Affils : \A i, k \in Items :
            ~IsZero(Both(i, k, j)) =>
                LET term == Mul(At(result, i, j), At(result, k, j))
                IN /\ IsFinite(term)
                   /\ Sign(term) >= 0
                   /\ AtMostOne(term)

\* C6: the affiliation count newman_transform and adamic_adar_transform use
\* is max(num_docs*pi_j, 2): exactly 2 when num_docs*pi_j < 2, never less
\* than 2, so the divisors sqrt(count - 1) and sqrt(log(count)) are never 0
\* and every transformed entry is finite, sparse path and dense path alike.
C6_CountFlooredAtTwo ==
    call.fn \in {"newman", "adamic_adar"} =>
        \A j \in Affils :
            LET product == Mul(FromInt(call.num_docs), call.pi_vector[j])
            IN /\ IsRational(affil_counts[j])
               /\ RLe(Two.c, affil_counts[j].c)
               /\ RLt(product.c, Two.c) => affil_counts[j] = Two
               /\ ~RLt(product.c, Two.c) => affil_counts[j] = product
               /\ ~IsZero(NewmanDivisor(affil_counts)[j])
               /\ ~IsZero(AdamicAdarDivisor(affil_counts)[j])
               /\ \A i \in Items :
                      /\ IsFinite(At(result, i, j))
                      /\ IsZero(At(result, i, j)) <=> IsZero(At(M, i, j))

\* a sparse-path newman call with num_docs*pi_1 = 1/2 < 2 and
\* num_docs*pi_2 = 3 > 2
C6_Witness ==
    /\ call.fn = "newman"
    /\ isspmatrix(M) /\ ~call.make_dense /\ isspmatrix(result)
    /\ call.num_docs = 3
    /\ call.pi_vector[1] = Half /\ call.pi_vector[2] = One
    /\ affil_counts[1] = Two /\ affil_counts[2] = FromInt(3)
    /\ At(M, 1, 1) = One /\ At(result, 1, 1) = One

\* C7: for two rows that each have a nonzero entry, the dot product of the
\* rows of cosine_transform's result is shared / (sqrt(deg_i) * sqrt(deg_k));
\* it is 0 when they share nothing, and in the scenario matrix items 1 and 2
\* score 1/2 and items 1 and 3 score 0.
C7_CosineScore ==
    call.fn = "cosine" =>
        /\ \A i, k \in Items :
               (~ZeroRow(i) /\ ~ZeroRow(k)) =>
                   /\ DotProduct(result, i, k)
                        = {Div(FromInt(Shared(i, k)),
                               Mul(Sqrt(FromInt(Degree(i))), Sqrt(FromInt(Degree(k)))))}
                            \ {Zero}
                   /\ Shared(i, k) = 0 => DotProduct(result, i, k) = {}
        /\ IsScenario =>
               /\ DotProduct(result, 1, 2) = {Half}
               /\ DotProduct(result, 1, 3) = {}

C7_Witness ==
    /\ call.fn = "cosine"
    /\ IsScenario
    /\ isspmatrix(M) /\ ~call.make_dense
    /\ Degree(1) = 2 /\ Degree(2) = 2 /\ Shared(1, 2) = 1 /\ Shared(1, 3) = 0
    /\ DotProduct(result, 1, 2) = {Half}

\* C8: shared_size_transform with back_compat=True returns the adjacency
\* matrix with every entry unchanged, sparse or dense, whatever make_dense,
\* so the dot product of two rows is the number of affiliations they share
\* (1 for rows [1,1,0,0] and [1,0,1,0]).
C8_BackCompatIsIdentity ==
    (call.fn = "shared_size" /\ call.back_compat) =>
        /\ result = M
        /\ \A i, k \in Items :
               DotProduct(result, i, k) = {FromInt(Shared(i, k))} \ {Zero}
        /\ IsScenario => DotProduct(result, 1, 2) = {One}

C8_Witness ==
    /\ call.fn = "shared_size" /\ call.back_compat /\ call.make_dense
    /\ IsScenario /\ isspmatrix(M)
    /\ isspmatrix(result)
    /\ DotProduct(result, 1, 2) = {One}

\* C9: with make_dense left False, newman, adamic_adar, shared_size,
\* shared_weight11, cosine and cosine_weights return a sparse matrix for a
\* sparse input and a dense one for a dense input; wc, wc_exp and pearson
\* return a dense matrix for every input; the shape is the input's.
C9_Representation ==
    (Called /\ ~call.make_dense) =>
        /\ call.fn \in {"newman", "adamic_adar", "shared_size", "shared_weight11",
                        "cosine", "cosine_weights"} => result.kind = M.kind
        /\ call.fn \in {"wc", "wc_exp", "pearson"} => result.kind = "dense"
        /\ result.shape = M.shape
        /\ result.kind = "dense" => DOMAIN result.data = Cells(M.shape[1], M.shape[2])
        /\ result.kind = "sparse" => DOMAIN result.data \subseteq Cells(M.shape[1], M.shape[2])

C9_Witness ==
    /\ call.fn = "pearson"
    /\ isspmatrix(M)
    /\ Cardinality(DOMAIN M.data) = 1
    /\ result.kind = "dense"
    /\ result.shape = M.shape

\* C10 as claimed: no transform changes the caller's adjacency matrix,
\* popularity vector or weights, and the matrix returned is a different
\* object from the adjacency matrix passed in.
C10_ReturnsNewObject ==
    Called =>
        /\ adj_matrix = call.adj_matrix
        /\ pi_vector = call.pi_vector
        /\ weights = call.weights
        /\ ret # "adj_matrix"

\* C10 as amended: the caller's objects keep their values, and the matrix
\* returned is a new object except for shared_size_transform with
\* back_compat=True, which returns the adjacency matrix object itself.
C10_ArgumentsUnchanged ==
    Called =>
        /\ adj_matrix = call.adj_matrix
        /\ pi_vector = call.pi_vector
        /\ weights = call.weights
        /\ ret = "adj_matrix" <=> (call.fn = "shared_size" /\ call.back_compat)
        /\ ret = "adj_matrix" => result = adj_matrix

\* a wc call whose pi holds a 0 and a 1: pi_for_denom was changed, pi was not
C10_Witness ==
    /\ call.fn = "wc"
    /\ call.pi_vector = <<Zero, One>>
    /\ pi_vector = <<Zero, One>>
    /\ ret = "new"
    /\ result # adj_matrix

====
